---- MODULE Spec2Model ----
(***************************************************************************)
(* A model of src/main.py: a ray tracer for spheres and point lights and   *)
(* the scanline render loop that drives it.                                *)
(*                                                                         *)
(* Floating-point numbers are modelled as fixed-point numbers: the integer *)
(* n stands for the real n / SCALE.  Products, quotients and square roots  *)
(* are rounded down to the next multiple of 1 / SCALE, where the program   *)
(* rounds to the nearest float.  Vectors (glm.vec3) are triples.           *)
(* An optional value (None or an object) is a sequence of length 0 or 1.   *)
(* A reference to a Sphere is its index in scene.objects.                  *)
(***************************************************************************)
EXTENDS Integers, Sequences, FiniteSets, TLC

VARIABLES
    scene,      \* the Scene handed to render / the receiver of closest, trace
    camera,     \* the Camera handed to render
    pc,         \* position in render: "drain", "row", "flip", "terminated";
                \* for the ray-tracing calls: "call", "return"
    i,          \* render: the scanline cursor
    j,          \* render: the column of the inner loop
    events,     \* the platform's queue of pending events
    surface,    \* the framebuffer: (j, i) -> color
    writes,     \* per pixel, the number of set_at calls so far
    presents,   \* the number of pygame.display.flip() calls so far
    samples,    \* per pixel, the pixel_center it was traced with
    ray,        \* the ray argument of intersect / closest / trace
    out         \* the call made and the value it returned

vars == <<scene, camera, pc, i, j, events, surface, writes, presents, samples, ray, out>>

(***************************************************************************)
(* Bounds of the model.                                                    *)
(***************************************************************************)
HalfUnit == 512         \* the fixed-point resolution: 0.5 is HalfUnit
MaxEvents == 2          \* pending events the platform queue holds
MaxWidth == 3           \* camera.width of the rendered image
MaxHeight == 3          \* camera.height of the rendered image
MaxCoord == 2           \* ray origins are lattice points of [-MaxCoord, MaxCoord]^2

(***************************************************************************)
(* Only({e(x) : x \in {v}}) is e(x) for x = v, with v computed once: it      *)
(* stands for a local variable of the program that is assigned once.       *)
(***************************************************************************)
Only(S) == CHOOSE v \in S : TRUE

(***************************************************************************)
(* Numbers.                                                                *)
(***************************************************************************)
SCALE == 2 * HalfUnit

Num(n) == n * SCALE

Half == HalfUnit

\* n / d for a decimal literal such as 0.12 = Frac(12, 100)
Frac(n, d) == (n * SCALE) \div d

Mul(x, y) == (x * y) \div SCALE

Div(x, y) == (x * SCALE) \div y

RECURSIVE SqrtIter(_, _, _)
SqrtIter(n, lo, hi) ==
    IF lo >= hi THEN lo
    ELSE Only({IF mid * mid <= n THEN SqrtIter(n, mid, hi) ELSE SqrtIter(n, lo, mid - 1)
               : mid \in {(lo + hi + 1) \div 2}})

\* math.sqrt, rounded down: the largest r with r * r <= x * SCALE
Sqrt(x) == Only({SqrtIter(n, 0, IF n < 46340 THEN n ELSE 46340) : n \in {x * SCALE}})

Min2(x, y) == IF y < x THEN y ELSE x

Max2(x, y) == IF y > x THEN y ELSE x

\* min() of a non-empty list
RECURSIVE MinOf(_)
MinOf(s) == IF Len(s) = 1 THEN s[1] ELSE Min2(s[1], MinOf(Tail(s)))

(***************************************************************************)
(* glm.vec3                                                                *)
(***************************************************************************)
vec3(x, y, z) == <<Num(x), Num(y), Num(z)>>

VAdd(u, v) == <<u[1] + v[1], u[2] + v[2], u[3] + v[3]>>

VSub(u, v) == <<u[1] - v[1], u[2] - v[2], u[3] - v[3]>>

VScale(v, s) == <<Mul(v[1], s), Mul(v[2], s), Mul(v[3], s)>>

Dot(u, v) == Mul(u[1], v[1]) + Mul(u[2], v[2]) + Mul(u[3], v[3])

Length(v) == Sqrt(Dot(v, v))

Normalize(v) ==
    Only({Only({<<Div(vv[1], len), Div(vv[2], len), Div(vv[3], len)>> : len \in {Length(vv)}})
          : vv \in {v}})

(***************************************************************************)
(* Optional values                                                         *)
(***************************************************************************)
None == <<>>

Some(x) == <<x>>

(***************************************************************************)
(* class Ray                                                               *)
(***************************************************************************)
Ray(origin, direction) == [origin |-> origin, direction |-> Normalize(direction)]

at(r, t) == VAdd(r.origin, VScale(r.direction, t))

(***************************************************************************)
(* class Camera, with euler_angles = (0, 0, 0): the rotation matrix is the *)
(* identity and right, up, front are the canonical basis.                  *)
(***************************************************************************)
Camera(center, width, height, focal_length) ==
    [center |-> center, width |-> width, height |-> height,
     focal_length |-> focal_length,
     right |-> vec3(1, 0, 0), up |-> vec3(0, 1, 0), front |-> vec3(0, 0, 1)]

\* get_ray(x, y); x and y are numbers (pixel coordinates, not integers)
get_ray(cam, x, y) ==
    LET w == Num(cam.width)
        h == Num(cam.height)
    IN  Only({Ray(cam.center, d2)
              : d2 \in {VAdd(d1, VScale(VScale(cam.up, Div(h, w)), Div(y, h) - Half))
                        : d1 \in {VAdd(d0, VScale(cam.right, Div(x, w) - Half))
                                  : d0 \in {VScale(cam.front, cam.focal_length)}}}})

(***************************************************************************)
(* class Hit, class Sphere                                                 *)
(***************************************************************************)
Hit(object, position, normal, distance) ==
    [object |-> object, position |-> position, normal |-> normal, distance |-> distance]

Sphere(center, radius, color) == [center |-> center, radius |-> radius, color |-> color]

QuadA(r) == Dot(r.direction, r.direction)

QuadB(self, r) == 2 * Dot(r.direction, VSub(r.origin, self.center))

QuadC(self, r) ==
    LET s0_p0 == VSub(r.origin, self.center)
    IN  Dot(s0_p0, s0_p0) - Mul(self.radius, self.radius)

Delta(self, r) == Mul(QuadB(self, r), QuadB(self, r)) - Mul(4 * QuadA(r), QuadC(self, r))

\* the sign of b lost
bhaskaraSignSlip(a, b, d) == Div(b + d, 2 * a)

bhaskara(a, b, d) == Div(-b + d, 2 * a)

Solutions(self, r) ==
    LET sqrt_delta == Sqrt(Delta(self, r))
    IN  <<bhaskara(QuadA(r), QuadB(self, r), sqrt_delta),
          bhaskara(QuadA(r), QuadB(self, r), -sqrt_delta)>>

\* a tangent ray taken for a hit
HasRealRootsOrTangent(delta) == delta >= 0

HasRealRoots(delta) == delta > 0

Positive(s) == s > 0

\* Sphere.intersect; obj is the reference to self, objs the heap it points into
intersect(objs, obj, r) ==
    LET self == objs[obj]
    IN  IF HasRealRoots(Delta(self, r))
        THEN Only({IF Len(positive_solutions) > 0
                   THEN LET distance == MinOf(positive_solutions)
                            hit_point == at(r, distance)
                            normal == Normalize(VSub(hit_point, self.center))
                        IN  Some(Hit(obj, hit_point, normal, distance))
                   ELSE None
                   : positive_solutions \in {SelectSeq(Solutions(self, r), Positive)}})
        ELSE None

(***************************************************************************)
(* class PointLight                                                        *)
(***************************************************************************)
PointLight(position, intensity) == [position |-> position, intensity |-> intensity]

intensity_at(self, hit) ==
    LET direction == VSub(self.position, hit.position)
        distance == Length(direction)
        cos_theta == Dot(Normalize(direction), hit.normal)
    IN  Max2(0, Div(Mul(self.intensity, cos_theta), Mul(distance, distance)))

(***************************************************************************)
(* class Scene                                                             *)
(***************************************************************************)
Scene(background, ambient_light, objects, lights) ==
    [background |-> background, ambient_light |-> ambient_light,
     objects |-> objects, lights |-> lights]

\* the last of several equally near surfaces wins
CloserOrEqual(hit, closest_hit) == hit.distance <= closest_hit.distance

Closer(hit, closest_hit) == hit.distance < closest_hit.distance

\* the loop of Scene.closest after the first n objects
RECURSIVE ClosestLoop(_, _, _)
ClosestLoop(objs, r, n) ==
    IF n = 0 THEN None
    ELSE Only({IF hit # None /\ (closest_hit = None \/ Closer(hit[1], closest_hit[1]))
               THEN hit
               ELSE closest_hit
               : closest_hit \in {ClosestLoop(objs, r, n - 1)},
                 hit \in {intersect(objs, n, r)}})

closest(self, r) == Only({ClosestLoop(self.objects, rr, Len(self.objects)) : rr \in {r}})

\* any hit of the shadow ray counts, whatever its object
AnyLightHit(light_hit, closest_hit) == light_hit # None

LightVisible(light_hit, closest_hit) ==
    light_hit # None /\ light_hit[1].object = closest_hit.object

\* the loop of Scene.trace after the first n lights: the value of intensity,
\* and for each light so far whether its contribution was added
RECURSIVE TraceLoop(_, _, _)
TraceLoop(self, closest_hit, n) ==
    IF n = 0 THEN [intensity |-> self.ambient_light, lit |-> <<>>]
    ELSE LET light == self.lights[n]
             light_ray == Ray(light.position, VSub(closest_hit.position, light.position))
         IN  Only({IF LightVisible(light_hit, closest_hit)
                   THEN [intensity |-> before.intensity + intensity_at(light, closest_hit),
                         lit |-> Append(before.lit, TRUE)]
                   ELSE [intensity |-> before.intensity, lit |-> Append(before.lit, FALSE)]
                   : before \in {TraceLoop(self, closest_hit, n - 1)},
                     light_hit \in {closest(self, light_ray)}})

\* the intensity used as it is
NoClamp(intensity) == intensity

Clamp(intensity) == Min2(intensity, Num(1))

\* Scene.trace: the color returned, with the values of its locals
TraceLocals(self, r) ==
    Only({IF closest_hit # None
          THEN Only({[result |-> VScale(self.objects[hit.object].color,
                                        Clamp(loop.intensity)),
                      closest_hit |-> closest_hit,
                      intensity |-> Some(loop.intensity),
                      lit |-> loop.lit]
                     : hit \in {closest_hit[1]},
                       loop \in {TraceLoop(self, closest_hit[1], Len(self.lights))}})
          ELSE [result |-> self.background, closest_hit |-> None,
                intensity |-> None, lit |-> <<>>]
          : closest_hit \in {closest(self, r)}})

trace(self, r) == TraceLocals(self, r).result

(***************************************************************************)
(* The scenes, cameras and rays the calls are made with.                   *)
(***************************************************************************)
Green == vec3(83, 221, 108)

Violet == vec3(128, 117, 255)

Background == vec3(26, 27, 33)

Ambient == Frac(12, 100)

\* a large sphere, a small one above it that shades a part of it from the first
\* light, and a second light in front
ShadowScene ==
    Scene(Background, Ambient,
          <<Sphere(vec3(0, 0, 0), Num(2), Green), Sphere(vec3(0, 5, -1), Num(1), Violet)>>,
          <<PointLight(vec3(0, 8, 0), Num(60)), PointLight(vec3(0, 1, -8), Num(20))>>)

\* two distinct spheres with identical parameters, and a third behind them
TwinScene ==
    Scene(Background, Ambient,
          <<Sphere(vec3(0, 0, 4), Num(1), Green), Sphere(vec3(0, 0, 4), Num(1), Green),
            Sphere(vec3(0, 0, 7), Num(2), Violet)>>,
          <<PointLight(vec3(0, 6, 0), Num(20))>>)

\* same place and size, different colors, the order reversed by distance
LayerScene ==
    Scene(Background, Ambient,
          <<Sphere(vec3(0, 0, 7), Num(2), Violet), Sphere(vec3(0, 0, 4), Num(1), Green),
            Sphere(vec3(0, 0, 4), Num(1), Violet)>>,
          <<PointLight(vec3(0, 0, -6), Num(2))>>)

EmptyScene == Scene(Background, Ambient, <<>>, <<PointLight(vec3(0, 8, 0), Num(20))>>)

Scenes == {ShadowScene, TwinScene, LayerScene, EmptyScene}

Coords == (0 - MaxCoord) .. MaxCoord

Origins == {vec3(0, y, z) : y \in Coords, z \in Coords}

Directions ==
    {vec3(0, 0, 1), vec3(0, 0, -2), vec3(0, 1, 0), vec3(0, -1, 0), vec3(0, -1, 1),
     vec3(0, 1, 1), vec3(0, 3, 4), vec3(1, 0, 0), vec3(1, 2, 2)}

(***************************************************************************)
(* The render loop's platform: the events it may receive.                  *)
(***************************************************************************)
EventTypes == {"QUIT", "OTHER"}

Pixels(cam) == (0 .. cam.width - 1) \X (0 .. cam.height - 1)

Gray == <<125, 125, 125>>

NoCall == [op |-> "none"]

(***************************************************************************)
(* The ray-tracing calls, each made once on a scene and a ray.             *)
(***************************************************************************)
TraceInit ==
    /\ scene \in Scenes
    /\ camera = Camera(vec3(0, 0, 0), MaxWidth, MaxHeight, Num(1))
    /\ pc = "call"
    /\ i = 0
    /\ j = 0
    /\ events = <<>>
    /\ surface = [p \in Pixels(camera) |-> Gray]
    /\ writes = [p \in Pixels(camera) |-> 0]
    /\ presents = 0
    /\ samples = [p \in Pixels(camera) |-> None]
    /\ \E o \in Origins, d \in Directions : ray = Ray(o, d)
    /\ out = NoCall

CallIntersect ==
    /\ pc = "call"
    /\ \E obj \in 1 .. Len(scene.objects) :
          out' = [op |-> "intersect", object |-> obj,
                  result |-> intersect(scene.objects, obj, ray)]
    /\ pc' = "return"
    /\ UNCHANGED <<scene, camera, i, j, events, surface, writes, presents, samples, ray>>

CallClosest ==
    /\ pc = "call"
    /\ out' = [op |-> "closest", result |-> closest(scene, ray)]
    /\ pc' = "return"
    /\ UNCHANGED <<scene, camera, i, j, events, surface, writes, presents, samples, ray>>

CallTrace ==
    /\ pc = "call"
    /\ \E locals \in {TraceLocals(scene, ray)} :
          out' = [op |-> "trace", result |-> trace(scene, ray),
                  closest_hit |-> locals.closest_hit,
                  intensity |-> locals.intensity, lit |-> locals.lit]
    /\ pc' = "return"
    /\ UNCHANGED <<scene, camera, i, j, events, surface, writes, presents, samples, ray>>

TraceNext == CallIntersect \/ CallClosest \/ CallTrace

TraceSpec == TraceInit /\ [][TraceNext]_vars
(***************************************************************************)
(* Properties of the ray-tracing calls (checked under TraceSpec).          *)
(***************************************************************************)

\* what each surface of the scene answers for the ray
HitsOf(objs, r) == Only({[k \in 1 .. Len(objs) |-> intersect(objs, k, rr)] : rr \in {r}})

\* object k is hit by r at the least distance, and is the first in order to be
NearestIs(objs, r, k) ==
    \E hits \in {HitsOf(objs, r)} :
        /\ hits[k] # None
        /\ \A m \in 1 .. Len(objs) :
              hits[m] # None =>
                  \/ hits[k][1].distance < hits[m][1].distance
                  \/ hits[k][1].distance = hits[m][1].distance /\ k <= m

\* C4: Scene.closest returns no hit exactly when no surface intersects the ray;
\* otherwise it returns the hit of a surface at the least distance over all
\* surfaces' hits, and among several at that distance the first in order.
C4_ClosestIsFirstNearest ==
    out.op = "closest" =>
        LET hits == HitsOf(scene.objects, ray)
        IN  /\ out.result = None <=> \A k \in 1 .. Len(scene.objects) : hits[k] = None
            /\ out.result # None =>
                  /\ out.result[1].object \in 1 .. Len(scene.objects)
                  /\ out.result = hits[out.result[1].object]
                  /\ NearestIs(scene.objects, ray, out.result[1].object)

\* two surfaces hit at the same least distance and the first was returned
C4_Witness ==
    /\ out.op = "closest"
    /\ out.result # None
    /\ \E m \in 1 .. Len(scene.objects) :
          /\ m > out.result[1].object
          /\ intersect(scene.objects, m, ray) # None
          /\ intersect(scene.objects, m, ray)[1].distance = out.result[1].distance

\* the empty collection: closest returns no hit
C4_WitnessEmpty == out.op = "closest" /\ scene.objects = <<>> /\ out.result = None

\* C5: Sphere.intersect returns no hit when the discriminant is not strictly
\* positive (tangency included) and when neither root is strictly positive (a
\* root of 0 included); otherwise its distance is the smaller of the strictly
\* positive roots.
C5_IntersectSmallestPositiveRoot ==
    out.op = "intersect" =>
        LET self == scene.objects[out.object]
            delta == Delta(self, ray)
            roots == Solutions(self, ray)
        IN  /\ delta <= 0 => out.result = None
            /\ (delta > 0 /\ roots[1] <= 0 /\ roots[2] <= 0) => out.result = None
            /\ (delta > 0 /\ (roots[1] > 0 \/ roots[2] > 0)) =>
                  /\ out.result # None
                  /\ out.result[1].distance > 0
                  /\ out.result[1].distance \in {roots[1], roots[2]}
                  /\ \A k \in 1 .. 2 : roots[k] > 0 => out.result[1].distance <= roots[k]

\* a tangent ray: the discriminant is exactly 0 and there is no hit
C5_Witness ==
    /\ out.op = "intersect"
    /\ Delta(scene.objects[out.object], ray) = 0
    /\ out.result = None

\* a ray that starts on the sphere and leaves it: the roots are 0 and negative
C5_WitnessZeroRoot ==
    /\ out.op = "intersect"
    /\ Delta(scene.objects[out.object], ray) > 0
    /\ Solutions(scene.objects[out.object], ray)[1] = 0
    /\ Solutions(scene.objects[out.object], ray)[2] < 0
    /\ out.result = None

\* both roots strictly positive: the hit is at the smaller one
C5_WitnessTwoPositive ==
    /\ out.op = "intersect"
    /\ out.result # None
    /\ Solutions(scene.objects[out.object], ray)[2] > 0
    /\ Solutions(scene.objects[out.object], ray)[1] > Solutions(scene.objects[out.object], ray)[2]
    /\ out.result[1].distance = Solutions(scene.objects[out.object], ray)[2]

\* the squared distance of two points and the dot product, without rounding
\* (in units of 1 / SCALE^2)
ExactDot(u, v) == u[1] * v[1] + u[2] * v[2] + u[3] * v[3]

Inside(self, p) == ExactDot(VSub(p, self.center), VSub(p, self.center)) < self.radius * self.radius

Outside(self, p) == ExactDot(VSub(p, self.center), VSub(p, self.center)) > self.radius * self.radius

PointsAway(self, r) == ExactDot(r.direction, VSub(self.center, r.origin)) <= 0

\* how far from the sphere's surface a computed point may lie
Tolerance == SCALE \div 32

OnSurface(self, p) ==
    /\ Length(VSub(p, self.center)) - self.radius <= Tolerance
    /\ self.radius - Length(VSub(p, self.center)) <= Tolerance

\* C6: a ray whose origin is strictly inside the sphere has exactly one hit, at
\* the positive root, where the ray leaves the sphere (the other root is
\* negative); a ray from outside that points away from the sphere has no hit.
C6_InsideHitsExitOutsideAwayMisses ==
    out.op = "intersect" =>
        LET self == scene.objects[out.object]
            roots == Solutions(self, ray)
        IN  /\ Inside(self, ray.origin) =>
                  /\ out.result # None
                  /\ roots[1] > 0
                  /\ roots[2] < 0
                  /\ out.result[1].distance = roots[1]
                  /\ out.result[1].position = at(ray, roots[1])
                  /\ OnSurface(self, out.result[1].position)
                  /\ Dot(ray.direction, out.result[1].normal) > 0
            /\ (Outside(self, ray.origin) /\ PointsAway(self, ray)) => out.result = None

\* a ray from strictly inside, not through the center, and its exit point
C6_Witness ==
    /\ out.op = "intersect"
    /\ Inside(scene.objects[out.object], ray.origin)
    /\ ray.origin # scene.objects[out.object].center
    /\ out.result # None
    /\ OnSurface(scene.objects[out.object], out.result[1].position)

\* a ray from outside that points away, with a positive discriminant
C6_WitnessAway ==
    /\ out.op = "intersect"
    /\ Outside(scene.objects[out.object], ray.origin)
    /\ PointsAway(scene.objects[out.object], ray)
    /\ Delta(scene.objects[out.object], ray) > 0
    /\ out.result = None

\* the shadow ray of light n for the hit
ShadowRay(self, n, hit) ==
    Ray(self.lights[n].position, VSub(hit.position, self.lights[n].position))

\* the sum of intensity_at over those of the first n lights that lit marks
RECURSIVE SumLit(_, _, _, _)
SumLit(self, hit, lit, n) ==
    IF n = 0 THEN 0
    ELSE SumLit(self, hit, lit, n - 1)
         + (IF lit[n] THEN intensity_at(self.lights[n], hit) ELSE 0)

\* C7: a light's contribution is added if and only if the nearest hit of the
\* shadow ray from the light toward the camera ray's hit exists and is on the
\* very same object (the same reference) as the camera ray's hit; and the
\* intensity is the ambient light plus the contributions added.
C7_LitIffShadowRayHitsSameObject ==
    (out.op = "trace" /\ out.closest_hit # None) =>
        LET hit == out.closest_hit[1]
        IN  /\ Len(out.lit) = Len(scene.lights)
            /\ \A n \in 1 .. Len(scene.lights) :
                  out.lit[n] <=> NearestIs(scene.objects, ShadowRay(scene, n, hit), hit.object)
            /\ out.intensity[1] =
                  scene.ambient_light + SumLit(scene, hit, out.lit, Len(scene.lights))

\* a light whose shadow ray first hits another object, at a point the light
\* would otherwise brighten, contributes nothing
C7_Witness ==
    /\ out.op = "trace"
    /\ out.closest_hit # None
    /\ \E n \in 1 .. Len(scene.lights) :
          /\ ~out.lit[n]
          /\ intensity_at(scene.lights[n], out.closest_hit[1]) > 0
          /\ \E k \in 1 .. Len(scene.objects) :
                /\ k # out.closest_hit[1].object
                /\ NearestIs(scene.objects, ShadowRay(scene, n, out.closest_hit[1]), k)

\* the shadow ray's nearest hit is on a sphere with the same parameters as the
\* camera ray's, and on the same object
C7_WitnessTwin ==
    /\ out.op = "trace"
    /\ out.closest_hit # None
    /\ \E k \in 1 .. Len(scene.objects) :
          /\ k # out.closest_hit[1].object
          /\ scene.objects[k] = scene.objects[out.closest_hit[1].object]
    /\ \E n \in 1 .. Len(scene.lights) : out.lit[n]

\* C8: trace returns background when there is no hit, and otherwise
\* color * min(intensity, 1) with intensity the ambient light plus contributions
\* that are never negative; for 0 <= ambient_light <= 1 every channel lies
\* between color * ambient_light and color.
C8_ColorIsBackgroundOrClampedShade ==
    out.op = "trace" =>
        /\ out.closest_hit = None <=> closest(scene, ray) = None
        /\ out.closest_hit = None => out.result = scene.background
        /\ scene.objects = <<>> => out.result = scene.background
        /\ out.closest_hit # None =>
              LET hit == out.closest_hit[1]
                  color == scene.objects[hit.object].color
                  intensity == out.intensity[1]
              IN  /\ \A n \in 1 .. Len(scene.lights) :
                        intensity_at(scene.lights[n], hit) >= 0
                  /\ intensity >= scene.ambient_light
                  /\ \A c \in 1 .. 3 :
                        /\ out.result[c] =
                              (color[c] * (IF intensity < SCALE THEN intensity ELSE SCALE))
                                  \div SCALE
                        /\ (color[c] * scene.ambient_light) \div SCALE <= out.result[c]
                        /\ out.result[c] <= color[c]

\* a hit brighter than 1, clamped to the object's own color
C8_Witness ==
    /\ out.op = "trace"
    /\ out.closest_hit # None
    /\ out.intensity[1] > SCALE
    /\ out.result = scene.objects[out.closest_hit[1].object].color

\* a miss returns the background
C8_WitnessMiss ==
    /\ out.op = "trace"
    /\ scene.objects # <<>>
    /\ out.closest_hit = None
    /\ out.result = scene.background
(***************************************************************************)
(* render(scene, camera): the scanline loop.  One action per step of the   *)
(* loop body; the platform posts events at any time.                       *)
(***************************************************************************)
RenderScenes == {ShadowScene, TwinScene}

CameraCenters == {vec3(0, 1, -6), vec3(0, 0, -4)}

FocalLength == Num(1)

\* pixel_center of column col and row cursor, without the flip of the rows
PixelCenterNoFlip(cam, col, cursor) == <<Num(col) + Half, Num(cursor) + Half>>

PixelCenter(cam, col, cursor) == <<Num(col) + Half, Num(cam.height) - Half - Num(cursor)>>

\* only the first pending event is looked at
HasQuitFirst(evs) == evs # <<>> /\ evs[1] = "QUIT"

\* the loop over pygame.event.get() meets an event of type QUIT
HasQuit(evs) == \E k \in 1 .. Len(evs) : evs[k] = "QUIT"

\* the last row is left out
RowPendingButLast(cam, cursor) == cursor < cam.height - 1

RowPending(cam, cursor) == cursor < cam.height

\* the last column is left out
RowDoneEarly(cam, col) == col >= cam.width - 1

\* range(0, camera.width) is exhausted at col
RowDone(cam, col) == col >= cam.width

\* the cursor starts over after the last row
NextCursorWrap(cam, cursor) == (cursor + 1) % cam.height

NextCursor(cam, cursor) == cursor + 1

RenderInit ==
    /\ scene \in RenderScenes
    /\ \E center \in CameraCenters : camera = Camera(center, MaxWidth, MaxHeight, FocalLength)
    /\ pc = "drain"
    /\ i = 0
    /\ j = 0
    /\ events = <<>>
    /\ surface = [p \in Pixels(camera) |-> Gray]
    /\ writes = [p \in Pixels(camera) |-> 0]
    /\ presents = 0
    /\ samples = [p \in Pixels(camera) |-> None]
    /\ ray = None
    /\ out = NoCall

\* the platform queues an event
PostEvent ==
    /\ pc # "terminated"
    /\ Len(events) < MaxEvents
    /\ \E e \in EventTypes : events' = Append(events, e)
    /\ UNCHANGED <<scene, camera, pc, i, j, surface, writes, presents, samples, ray, out>>

\* the top of the loop: take all pending events, exit on QUIT, else test the cursor
Drain ==
    /\ pc = "drain"
    /\ events' = <<>>
    /\ IF HasQuit(events)
       THEN pc' = "terminated" /\ j' = j
       ELSE IF RowPending(camera, i)
            THEN j' = 0 /\ pc' = (IF RowDone(camera, 0) THEN "flip" ELSE "row")
            ELSE pc' = "drain" /\ j' = j
    /\ UNCHANGED <<scene, camera, i, surface, writes, presents, samples, ray, out>>

\* one iteration of the loop over the columns
SetPixel ==
    /\ pc = "row"
    /\ \E pixel_center \in {PixelCenter(camera, j, i)} :
          \E camera_ray \in {get_ray(camera, pixel_center[1], pixel_center[2])} :
             \E color \in {trace(scene, camera_ray)} :
                /\ ray' = camera_ray
                /\ samples' = [samples EXCEPT ![<<j, i>>] = Some(pixel_center)]
                /\ surface' = [surface EXCEPT ![<<j, i>>] = color]
                /\ writes' = [writes EXCEPT ![<<j, i>>] = @ + 1]
    /\ IF RowDone(camera, j + 1)
       THEN pc' = "flip" /\ j' = j
       ELSE pc' = "row" /\ j' = j + 1
    /\ UNCHANGED <<scene, camera, i, events, presents, out>>

\* pygame.display.flip() and i += 1
Flip ==
    /\ pc = "flip"
    /\ presents' = presents + 1
    /\ i' = NextCursor(camera, i)
    /\ pc' = "drain"
    /\ UNCHANGED <<scene, camera, j, events, surface, writes, samples, ray, out>>

Loop == Drain \/ SetPixel \/ Flip

Next == PostEvent \/ Drain \/ SetPixel \/ Flip

Spec == RenderInit /\ [][Next]_vars

\* the loop runs whenever it can: the process is not suspended forever
FairSpec == RenderInit /\ [][Next]_vars /\ WF_vars(Loop)

(***************************************************************************)
(* Properties of the render loop (checked under Spec and FairSpec).        *)
(***************************************************************************)
QuitPending == \E k \in DOMAIN events : events[k] = "QUIT"

Terminated == pc = "terminated"

NothingDrawn == UNCHANGED <<i, surface, writes, presents, samples>>

\* C1: one pass: every pixel is written at most once, the cursor never passes
\* height, and once it equals height nothing is written or presented any more;
\* the loop is then at its event drain, which it leaves only by a quit event.
C1_OnePass ==
    /\ [](\A p \in Pixels(camera) : writes[p] <= 1)
    /\ [](i <= camera.height)
    /\ [](i = camera.height => pc \in {"drain", "terminated"})
    /\ [][i = camera.height => NothingDrawn]_vars
    /\ [][(i = camera.height /\ pc' # pc) => (QuitPending /\ pc' = "terminated")]_vars

\* the pass is complete and the loop idles at its event drain
C1_Witness ==
    /\ i = camera.height
    /\ pc = "drain"
    /\ events = <<>>
    /\ presents = camera.height
    /\ \A p \in Pixels(camera) : writes[p] = 1

\* C2: a drain that meets a quit event, at any position among the pending
\* events and at any value of the cursor, ends in Terminated without drawing;
\* and once Terminated nothing is written or presented and the cursor stays.
C2_QuitTerminatesAtOnce ==
    /\ [][(pc = "drain" /\ QuitPending /\ events' = <<>>) =>
             (pc' = "terminated" /\ NothingDrawn)]_vars
    /\ [][Terminated => (pc' = "terminated" /\ NothingDrawn)]_vars

\* terminated by a quit event in the middle of the pass
C2_Witness ==
    /\ Terminated
    /\ 0 < i
    /\ i < camera.height
    /\ presents = i

\* C3: the color at (j, i) is trace(get_ray(j + 0.5, height - 0.5 - i)): row i
\* from the top is sampled at the center of row height - 1 - i from the bottom,
\* so row 0 at y = height - 0.5 and row height - 1 at y = 0.5; distinct pixels
\* have distinct sample points, all strictly inside (0, width) x (0, height).
C3_PixelIsTraceOfFlippedCenter ==
    \A p \in Pixels(camera) :
        writes[p] > 0 =>
            LET x == Num(p[1]) + Half
                y == Num(camera.height - 1 - p[2]) + Half
            IN  /\ samples[p] = Some(<<x, y>>)
                /\ surface[p] = trace(scene, get_ray(camera, x, y))
                /\ 0 < x /\ x < Num(camera.width)
                /\ 0 < y /\ y < Num(camera.height)
                /\ p[2] = 0 => y = Num(camera.height) - Half
                /\ p[2] = camera.height - 1 => y = Half
                /\ \A q \in Pixels(camera) :
                      (writes[q] > 0 /\ q # p) => samples[q] # samples[p]

\* the whole image is drawn and it is not the same upside down
C3_Witness ==
    /\ \A p \in Pixels(camera) : writes[p] = 1
    /\ \E p \in Pixels(camera) :
          surface[p] # surface[<<p[1], camera.height - 1 - p[2]>>]
    /\ \E p \in Pixels(camera) : surface[p] # scene.background

\* C9: wherever the loop drains events (and where it terminated), 0 <= i <=
\* height, i presents were made, rows 0 .. i-1 are written completely and rows
\* i .. height-1 not at all.
C9_RowsCompleteAtDrain ==
    pc \in {"drain", "terminated"} =>
        /\ 0 <= i /\ i <= camera.height
        /\ presents = i
        /\ \A p \in Pixels(camera) :
              /\ p[2] < i => writes[p] = 1
              /\ p[2] >= i => (writes[p] = 0 /\ surface[p] = Gray)

\* terminated with some rows written and some not
C9_Witness ==
    /\ Terminated
    /\ \E p \in Pixels(camera) : writes[p] = 1
    /\ \E p \in Pixels(camera) : writes[p] = 0

\* C10: unless a quit event is delivered, the cursor reaches height, after
\* height presents; and Terminated is entered only on a pending quit event.
C10_CompletesUnlessQuit ==
    /\ <>(QuitPending \/ (i = camera.height /\ presents = camera.height))
    /\ [][(pc' = "terminated" /\ pc # "terminated") => QuitPending]_vars

\* the pass completed and no quit event was ever seen
C10_Witness ==
    /\ i = camera.height
    /\ presents = camera.height
    /\ pc = "drain"
    /\ ~QuitPending

====
